---- MODULE Spec2Model ----
(***************************************************************************)
(* actix-chain: the fallback dispatch chain.                               *)
(*                                                                         *)
(* A Chain is an ordered list of Links.  Chain::new_service compiles every *)
(* Link (Link::into_inner) into a LinkInner and wraps them in a            *)
(* ChainService.  For each request the dispatcher walks the compiled       *)
(* links: LinkInner::matches selects, LinkInner::call_once strips the      *)
(* prefix and calls the wrapped service, LinkInner::go_next decides        *)
(* whether the response is dropped in favour of the next link.             *)
(*                                                                         *)
(* Strings are sequences of one-character strings, so that starts_with,    *)
(* strip_prefix and the URI accessors are computed and not assumed.        *)
(***************************************************************************)
EXTENDS Integers, Sequences, FiniteSets, TLC

VARIABLES
    chain,      \* the Chain builder: [mount_path, links, guards]
    phase,      \* "build" | "compile" | "serve" | "failed"
    inner,      \* new_service's local `links`: the LinkInner compiled so far
    svc,        \* the ChainService produced by new_service, if any
    inits,      \* every handler-factory initialisation made by into_inner
    host,       \* what register handed to the host's router
    rq,         \* per request: the state of its dispatch
    rw,         \* RewriteService: the request it is serving
    px          \* ProxyService: the request it is serving

vars == <<chain, phase, inner, svc, inits, host, rq, rw, px>>

----------------------------------------------------------------------------
(* Bounds                                                                  *)

MaxLinks == 2

\* the requests of one behaviour
Rids == {1}

----------------------------------------------------------------------------
(* Strings, URIs, responses                                                *)

EmptyStr == << >>

\* str::starts_with
starts_with(s, p) ==
    /\ Len(p) <= Len(s)
    /\ SubSeq(s, 1, Len(p)) = p

\* str::strip_prefix: Option<&str>
strip_prefix(s, p) ==
    IF starts_with(s, p)
    THEN [some |-> TRUE, v |-> SubSeq(s, Len(p) + 1, Len(s))]
    ELSE [some |-> FALSE, v |-> EmptyStr]

\* index of the first "?" of a path-and-query, 0 if it has no query
query_start(pq) ==
    IF \E i \in 1..Len(pq) : pq[i] = "?"
    THEN CHOOSE i \in 1..Len(pq) : pq[i] = "?" /\ \A j \in 1..(i - 1) : pq[j] # "?"
    ELSE 0

\* PathAndQuery::path: the part before the query, "/" when that part is empty
pq_path(pq) ==
    LET q == query_start(pq)
        p == IF q = 0 THEN pq ELSE SubSeq(pq, 1, q - 1)
    IN  IF p = EmptyStr THEN <<"/">> ELSE p

\* PathAndQuery::query: the part after "?", if any
pq_query(pq) ==
    LET q == query_start(pq)
    IN  IF q = 0
        THEN [some |-> FALSE, v |-> EmptyStr]
        ELSE [some |-> TRUE, v |-> SubSeq(pq, q + 1, Len(pq))]

\* A Uri: abs = it carries a scheme and an authority (absolute form);
\* pq = its path-and-query text, empty when it has none.
MkUri(abs, pq) == [abs |-> abs, pq |-> pq]

\* Uri::path, as read by req.uri().path()
uri_path(uri) ==
    IF uri.pq # EmptyStr \/ uri.abs THEN pq_path(uri.pq) ELSE EmptyStr

\* what the handlers of this model may answer
MkRes(status, headers, body) == [status |-> status, headers |-> headers, body |-> body]

NOT_FOUND == 404

HandlerResponses ==
    { MkRes(200, {}, "ok"),
      MkRes(200, {"x-next"}, "ok"),
      MkRes(NOT_FOUND, {}, "missing"),
      MkRes(500, {}, "err") }

NoRes == MkRes(0, {}, "")

\* the errors a handler may fail with, and "no error"
HandlerErrors == {"io"}
NoErr == ""

\* Result<ServiceResponse, Error>
Ok(res) == [ok |-> TRUE, res |-> res, err |-> NoErr]
Err(e) == [ok |-> FALSE, res |-> NoRes, err |-> e]

\* the requests a client may send: a URI and the Host header the guards read
RequestUris ==
    { MkUri(FALSE, <<"/">>),
      MkUri(FALSE, <<"/", "a">>),
      MkUri(FALSE, <<"/", "a", "x">>),
      MkUri(FALSE, <<"/", "a", "/", "x">>),
      MkUri(FALSE, <<"/", "a", "?", "q">>),
      MkUri(TRUE,  <<"/", "a">>) }

Hosts == {"a", "b"}

----------------------------------------------------------------------------
(* Predicates                                                              *)

\* a Guard: Header("Host", v), or "*" for a guard that accepts every request
Guards == {"*", "a"}

GuardCheck(g, ctx) == g = "*" \/ ctx.host = g

\* IsStatus::new, HasHeader::new
IsStatus(code) == [kind |-> "IsStatus", code |-> code, name |-> ""]
HasHeader(name) == [kind |-> "HasHeader", code |-> 0, name |-> name]

\* <IsStatus as Next>::next
IsStatusNext(n, res) == res.status = n.code

\* <HasHeader as Next>::next
HasHeaderNext(n, res) == n.name \in res.headers

\* Next::next, by the kind of the predicate
NextNext(n, res) ==
    IF n.kind = "IsStatus" THEN IsStatusNext(n, res) ELSE HasHeaderNext(n, res)

----------------------------------------------------------------------------
(* Link (builder)                                                          *)

\* Link::new
LinkNew(service) ==
    [prefix |-> EmptyStr, guards |-> << >>, next |-> << >>, service |-> service]

\* Link::prefix
LinkPrefix(l, p) == [l EXCEPT !.prefix = p]

\* Link::guard
LinkGuard(l, g) == [l EXCEPT !.guards = Append(@, g)]

\* Link::next
LinkNext(l, n) == [l EXCEPT !.next = Append(@, n)]

RECURSIVE WithGuards(_, _)
WithGuards(l, gs) ==
    IF gs = << >> THEN l ELSE WithGuards(LinkGuard(l, Head(gs)), Tail(gs))

RECURSIVE WithNexts(_, _)
WithNexts(l, ns) ==
    IF ns = << >> THEN l ELSE WithNexts(LinkNext(l, Head(ns)), Tail(ns))

\* the builder calls a program makes before handing the Link to the Chain
Prefixes == { EmptyStr, <<"/", "a">> }
GuardLists == { << >>, <<"a">>, <<"*", "a">> }
NextLists == { << >>, <<IsStatus(500)>>, <<HasHeader("x-next"), IsStatus(500)>> }

BuiltLink(service, p, gs, ns) ==
    WithNexts(WithGuards(LinkPrefix(LinkNew(service), p), gs), ns)

\* AllGuard::check
AllGuardCheck(gs, ctx) == \A i \in 1..Len(gs) : GuardCheck(gs[i], ctx)

NoGuard == [some |-> FALSE, gs |-> << >>]

\* into_inner that installs no default continuation predicate
into_inner_no_default(l, factory_ok) ==
    LET guard == IF l.guards = << >> THEN [some |-> FALSE, gs |-> << >>]
                 ELSE [some |-> TRUE, gs |-> l.guards]
    IN  IF factory_ok
        THEN [ok |-> TRUE,
              v  |-> [guard |-> guard, next |-> l.next, prefix |-> l.prefix,
                      service |-> l.service]]
        ELSE [ok |-> FALSE,
              v  |-> [guard |-> guard, next |-> << >>, prefix |-> << >>,
                      service |-> 0]]

\* into_inner that installs the default predicate after the declared ones
into_inner_default_last(l, factory_ok) ==
    LET guard == IF l.guards = << >> THEN NoGuard ELSE [some |-> TRUE, gs |-> l.guards]
    IN  IF factory_ok
        THEN [ok |-> TRUE,
              v  |-> [guard |-> guard, next |-> Append(l.next, IsStatus(NOT_FOUND)),
                      prefix |-> l.prefix, service |-> l.service]]
        ELSE [ok |-> FALSE,
              v  |-> [guard |-> NoGuard, next |-> << >>, prefix |-> EmptyStr,
                      service |-> 0]]

\* Link::into_inner, given the outcome of the handler factory
into_inner(l, factory_ok) ==
    LET guard == IF l.guards = << >> THEN NoGuard ELSE [some |-> TRUE, gs |-> l.guards]
        next  == IF l.next = << >> THEN <<IsStatus(NOT_FOUND)>> ELSE l.next
    IN  IF factory_ok
        THEN [ok |-> TRUE,
              v  |-> [guard |-> guard, next |-> next, prefix |-> l.prefix,
                      service |-> l.service]]
        ELSE [ok |-> FALSE,
              v  |-> [guard |-> NoGuard, next |-> << >>, prefix |-> EmptyStr,
                      service |-> 0]]

\* a default response that reports success
default_response_ok ==
    MkRes(200, {"content-type"}, "Not Found")

\* default_response
default_response ==
    MkRes(NOT_FOUND, {"content-type"}, "Not Found")

----------------------------------------------------------------------------
(* LinkInner                                                               *)

\* new_uri that never rewrites
new_uri_keep(li, uri) == [some |-> FALSE, v |-> uri]

\* new_uri that keeps the path of the stripped text and drops its query
new_uri_no_query(li, uri) ==
    LET stripped == strip_prefix(uri.pq, li.prefix)
    IN  IF li.prefix = EmptyStr \/ ~stripped.some
        THEN [some |-> FALSE, v |-> uri]
        ELSE [some |-> TRUE,
              v    |-> MkUri(uri.abs,
                             IF query_start(stripped.v) = 0 THEN stripped.v
                             ELSE SubSeq(stripped.v, 1, query_start(stripped.v) - 1))]

\* LinkInner::new_uri: Option<Uri>.  PathAndQuery::from_str accepts every
\* suffix of a valid path-and-query, the empty one included.
new_uri(li, uri) ==
    IF li.prefix = EmptyStr
    THEN [some |-> FALSE, v |-> uri]
    ELSE LET has_pq   == uri.pq # EmptyStr \/ uri.abs     \* Uri::into_parts
             stripped == strip_prefix(uri.pq, li.prefix)
             pq       == IF has_pq /\ stripped.some
                         THEN [some |-> TRUE, v |-> stripped.v]
                         ELSE [some |-> FALSE, v |-> EmptyStr]
         IN  \* Uri::from_parts: a scheme needs a path-and-query
             IF uri.abs /\ ~pq.some
             THEN [some |-> FALSE, v |-> uri]
             ELSE [some |-> TRUE, v |-> MkUri(uri.abs, pq.v)]

\* matches with a prefix test that ends at a path segment
matches_segment(li, path, ctx) ==
    /\ starts_with(path, li.prefix)
    /\ IF li.prefix = EmptyStr \/ Len(path) = Len(li.prefix)
       THEN TRUE
       ELSE path[Len(li.prefix) + 1] = "/"
    /\ li.guard.some
    /\ ~AllGuardCheck(li.guard.gs, ctx)

\* LinkInner::matches
matches(li, path, ctx) ==
    /\ starts_with(path, li.prefix)
    /\ li.guard.some
    /\ ~AllGuardCheck(li.guard.gs, ctx)

\* go_next with the test of each predicate negated
go_next_negated(li, res) == \E i \in 1..Len(li.next) : ~NextNext(li.next[i], res)

\* go_next that asks every predicate to match
go_next_all(li, res) == \A i \in 1..Len(li.next) : NextNext(li.next[i], res)

\* LinkInner::go_next
go_next(li, res) == \E i \in 1..Len(li.next) : NextNext(li.next[i], res)

\* LinkInner::call_once up to the await: either the default response
\* (called = FALSE) or the request handed to the wrapped service
call_once(li, req) ==
    IF ~matches(li, uri_path(req.uri), req)
    THEN [called |-> FALSE, uri |-> req.uri, host |-> req.host,
          res |-> default_response]
    ELSE LET u == new_uri(li, req.uri)
         IN  [called |-> TRUE,
              uri    |-> IF u.some THEN u.v ELSE req.uri,
              host   |-> req.host,
              res    |-> NoRes]

\* a call_once that answers a failed handler with the default response
call_once_await_default(out) == IF out.ok THEN out ELSE Ok(default_response)

\* LinkInner::call_once from the await on: the Result of the wrapped
\* service is the Result of call_once
call_once_await(out) == out

----------------------------------------------------------------------------
(* RewriteService (actix-rewrite)                                          *)

\* the request URIs RewriteService is given
RwRequestUris ==
    { MkUri(FALSE, <<"/", "a">>),
      MkUri(FALSE, <<"/", "a", "?", "k=1">>),
      MkUri(TRUE,  <<"/", "a">>),
      MkUri(TRUE,  <<"/", "a", "?", "k=1">>) }

\* the URI texts the rule engine may hand back; "http://h" stands for a
\* scheme and an authority, " " for a character no URI may hold
RewrittenTexts ==
    { <<"/", "b">>,
      <<"/", "b", "?", "k=2">>,
      <<"/", "b", "?", "j=1">>,
      <<"http://h", "/", "b">>,
      <<"/", " ", "b">>,
      EmptyStr }

\* what mod_rewrite::Engine::rewrite_ctx gives, with the outcome of
\* util::recode on a rewritten URI
ModRewriteResults ==
    [kind : {"err"}, text : {EmptyStr}, recode_ok : {TRUE}, sc : {0}]
    \cup [kind : {"uri", "enduri"}, text : RewrittenTexts, recode_ok : BOOLEAN, sc : {0}]
    \cup [kind : {"redirect"}, text : {<<"/", "b">>}, recode_ok : {TRUE}, sc : {99, 302}]
    \cup [kind : {"status"}, text : {EmptyStr}, recode_ok : {TRUE}, sc : {403, 1000}]

NoRewrite == [kind |-> "none", text |-> EmptyStr, res |-> NoRes]

RwOk(v) == [ok |-> TRUE, v |-> v, err |-> NoErr]
RwErr(e) == [ok |-> FALSE, v |-> NoRewrite, err |-> e]

\* StatusCode::from_u16
status_from_u16(sc) == sc >= 100 /\ sc < 1000

\* Engine::rewrite: Result<Rewrite, Error>
engine_rewrite(m) ==
    CASE m.kind = "err" -> RwErr("engine")
      [] m.kind \in {"uri", "enduri"} ->
            IF m.recode_ok
            THEN RwOk([kind |-> "uri", text |-> m.text, res |-> NoRes])
            ELSE RwErr("recode")
      [] m.kind = "redirect" ->
            IF status_from_u16(m.sc)
            THEN RwOk([kind |-> "redirect", text |-> EmptyStr,
                       res |-> MkRes(m.sc, {"location"}, "")])
            ELSE RwErr("status")
      [] m.kind = "status" ->
            IF status_from_u16(m.sc)
            THEN RwOk([kind |-> "response", text |-> EmptyStr,
                       res |-> MkRes(m.sc, {}, "")])
            ELSE RwErr("status")

\* Uri::from_str on the rewritten text
uri_from_str(text) ==
    IF text = EmptyStr \/ \E i \in 1..Len(text) : text[i] = " "
    THEN [ok |-> FALSE, v |-> MkUri(FALSE, EmptyStr)]
    ELSE IF text[1] = "http://h"
    THEN [ok |-> TRUE, v |-> MkUri(TRUE, Tail(text))]
    ELSE [ok |-> TRUE, v |-> MkUri(FALSE, text)]

\* the key of a "key=value" pair
pair_key(p) == CASE p \in {"k=1", "k=2"} -> "k" [] p = "j=1" -> "j" [] OTHER -> p

\* util::get_query: the pairs of the URI's query
get_query(uri) ==
    LET q == pq_query(uri.pq)
    IN  IF q.some THEN {q.v[i] : i \in 1..Len(q.v)} \ {"&"} ELSE {}

NoJoined == [abs |-> FALSE, path |-> EmptyStr, query |-> {}]

\* util::join_uri: the query of `before` extended by that of `after`, the
\* scheme and authority of `after` or else of `before` (the scheme HTTP
\* when neither has one), the path of `after`.  Uri::from_parts refuses a
\* scheme without an authority.
join_uri(before, after) ==
    LET keys  == {pair_key(p) : p \in get_query(after)}
        query == {p \in get_query(before) : pair_key(p) \notin keys} \cup get_query(after)
    IN  IF ~(after.abs \/ before.abs)
        THEN [ok |-> FALSE, v |-> NoJoined]
        ELSE [ok |-> TRUE,
              v  |-> [abs |-> TRUE, path |-> uri_path(after), query |-> query]]

\* a call that hands the request to the inner service after a redirect too
service_call_through(before, m) ==
    LET e == engine_rewrite(m)
        after == uri_from_str(e.v.text)
        j == join_uri(before, after.v)
    IN  IF ~e.ok
        THEN [inner |-> FALSE, uri |-> NoJoined, out |-> Err(e.err)]
        ELSE IF e.v.kind = "response"
        THEN [inner |-> FALSE, uri |-> NoJoined, out |-> Ok(e.v.res)]
        ELSE IF e.v.kind = "redirect"
        THEN [inner |-> TRUE, uri |-> NoJoined, out |-> Ok(NoRes)]
        ELSE IF ~after.ok
        THEN [inner |-> FALSE, uri |-> NoJoined, out |-> Err("InvalidUri")]
        ELSE IF ~j.ok
        THEN [inner |-> FALSE, uri |-> NoJoined, out |-> Err("InvalidUriParts")]
        ELSE [inner |-> TRUE, uri |-> j.v, out |-> Ok(NoRes)]

\* RewriteService::call up to `this.service.call(req)`: either what it
\* returns without the inner service, or the URI the inner service is
\* called with
service_call(before, m) ==
    LET e == engine_rewrite(m)
        after == uri_from_str(e.v.text)
        j == join_uri(before, after.v)
    IN  IF ~e.ok
        THEN [inner |-> FALSE, uri |-> NoJoined, out |-> Err(e.err)]
        ELSE IF e.v.kind \in {"redirect", "response"}
        THEN [inner |-> FALSE, uri |-> NoJoined, out |-> Ok(e.v.res)]
        ELSE IF ~after.ok
        THEN [inner |-> FALSE, uri |-> NoJoined, out |-> Err("InvalidUri")]
        ELSE IF ~j.ok
        THEN [inner |-> FALSE, uri |-> NoJoined, out |-> Err("InvalidUriParts")]
        ELSE [inner |-> TRUE, uri |-> j.v, out |-> Ok(NoRes)]

IdleRw ==
    [st |-> "idle", uri |-> MkUri(FALSE, <<"/", "a">>),
     m |-> [kind |-> "err", text |-> EmptyStr, recode_ok |-> TRUE, sc |-> 0],
     calls |-> 0, inner_uri |-> NoJoined, out |-> Ok(NoRes)]

----------------------------------------------------------------------------
(* ProxyService (actix-revproxy)                                           *)

\* the requests ProxyService is given
PxMethods == {"GET", "POST"}
PxRequestUris == { <<"/">>, <<"/", "a">>, <<"/", "a", "?", "q">> }

\* what combine_uri gives for the resolution URI and the request URI
CombineResults ==
    [ok : {FALSE}, uri : {EmptyStr}]
    \cup [ok : {TRUE}, uri : { <<"http://up", "/">>, <<"http://up", "/", "a">> }]

\* what the upstream answers, and the failures of send_stream
UpstreamStatuses == {200, 404, 502}
UpstreamHeaders == SUBSET {"content-type", "x-up"}
SendErrors == {"connect", "timeout"}

SendResults ==
    [ok : {TRUE}, status : UpstreamStatuses, headers : UpstreamHeaders, err : {NoErr}]
    \cup [ok : {FALSE}, status : {0}, headers : {{}}, err : SendErrors]

NoPxReq == [method |-> "GET", uri |-> <<"/">>]
NoPxRes == [kind |-> "none", req |-> NoPxReq, status |-> 0, headers |-> {}]

PxOk(res) == [ok |-> TRUE, res |-> res, err |-> NoErr]
PxErr(e) == [ok |-> FALSE, res |-> NoPxRes, err |-> e]

\* default_response(req) of the proxy: a response for the original request
px_default_response(req) == [kind |-> "default", req |-> req, status |-> 0, headers |-> {}]

\* ProxyService::call, the match on combine_uri: the target to send to, or
\* the default response
on_combine(req, c) ==
    IF c.ok
    THEN [send |-> TRUE, target |-> c.uri, out |-> PxOk(NoPxRes)]
    ELSE [send |-> FALSE, target |-> EmptyStr, out |-> PxOk(px_default_response(req))]

\* a match on send_stream that hands the failure to the caller
on_send_propagate(req, s) ==
    IF s.ok
    THEN PxOk([kind |-> "upstream", req |-> req, status |-> s.status,
               headers |-> s.headers])
    ELSE PxErr(s.err)

\* ProxyService::call, the match on send_stream and the response built
\* from forward_res: its status and each of its headers
on_send(req, s) ==
    IF s.ok
    THEN PxOk([kind |-> "upstream", req |-> req, status |-> s.status,
               headers |-> s.headers])
    ELSE PxOk(px_default_response(req))

IdlePx ==
    [st |-> "idle", req |-> NoPxReq, target |-> EmptyStr, sends |-> 0,
     combined |-> TRUE, sent |-> [ok |-> TRUE, status |-> 0, headers |-> {}, err |-> NoErr],
     out |-> PxOk(NoPxRes)]

----------------------------------------------------------------------------
(* Chain (builder) and compile                                             *)

\* Chain::new
ChainNew(mount_path) == [mount_path |-> mount_path, links |-> << >>, guards |-> << >>]

\* push_link that puts the new link first
push_link_front(c, l) == [c EXCEPT !.links = <<l>> \o @]

\* Chain::push_link
push_link(c, l) == [c EXCEPT !.links = Append(@, l)]

NoSvc == [some |-> FALSE, links |-> << >>]

IdleReq ==
    [st |-> "idle", uri |-> MkUri(FALSE, <<"/">>), host |-> "a", idx |-> 0,
     inflight |-> {}, tried |-> << >>, log |-> << >>, result |-> NoRes, by |-> 0,
     err |-> NoErr]

Init ==
    /\ chain = ChainNew(EmptyStr)
    /\ phase = "build"
    /\ inner = << >>
    /\ svc = NoSvc
    /\ inits = << >>
    /\ host = [registered |-> FALSE, guards |-> NoGuard]
    /\ rq = [r \in Rids |-> IdleReq]
    /\ rw = IdleRw
    /\ px = IdlePx

\* Chain::link: the n-th Link added wraps the n-th handler factory
ChainLink ==
    /\ phase = "build"
    /\ Len(chain.links) < MaxLinks
    /\ \E p \in Prefixes, gs \in GuardLists, ns \in NextLists :
          chain' = push_link(chain, BuiltLink(Len(chain.links) + 1, p, gs, ns))
    /\ UNCHANGED <<phase, inner, svc, inits, host, rq, rw, px>>

\* Chain::guard
chain_guard(c, g) == [c EXCEPT !.guards = Append(@, g)]

\* the sequences of Chain::guard calls a program makes
ChainGuardLists == { << >>, <<"a">> }

ChainGuard ==
    /\ phase = "build"
    /\ \E g \in Guards :
          /\ chain_guard(chain, g).guards \in ChainGuardLists
          /\ chain' = chain_guard(chain, g)
    /\ UNCHANGED <<phase, inner, svc, inits, host, rq, rw, px>>

\* a register that hands no guards to the host
Register_no_guards ==
    /\ phase = "build"
    /\ phase' = "compile"
    /\ host' = [registered |-> TRUE, guards |-> NoGuard]
    /\ UNCHANGED <<chain, inner, svc, inits, rq, rw, px>>

\* HttpServiceFactory::register: the guards are taken out of the Chain and
\* handed to the host with it; the host will call new_service.  `chain`
\* keeps the builder as it was declared.
Register ==
    /\ phase = "build"
    /\ phase' = "compile"
    /\ host' = [registered |-> TRUE,
                guards |-> IF chain.guards = << >> THEN NoGuard
                           ELSE [some |-> TRUE, gs |-> chain.guards]]
    /\ UNCHANGED <<chain, inner, svc, inits, rq, rw, px>>

\* the match with `Err(_) => continue`: a failed link is left out
NewServiceStep_skip(r) ==
    IF r.ok
    THEN /\ inner' = Append(inner, r.v)
         /\ UNCHANGED <<phase, svc>>
    ELSE UNCHANGED <<inner, phase, svc>>

\* Chain::new_service, the match on one link's into_inner: push the
\* LinkInner, or return Err(())
NewServiceStep(r) ==
    IF r.ok
    THEN /\ inner' = Append(inner, r.v)
         /\ UNCHANGED <<phase, svc>>
    ELSE /\ phase' = "failed"
         /\ UNCHANGED <<inner, svc>>

\* a loop over the links from the last one to the first
NewServiceLink_backwards ==
    /\ phase = "compile"
    /\ Len(inits) < Len(chain.links)
    /\ \E factory_ok \in BOOLEAN :
          LET l == chain.links[Len(chain.links) - Len(inits)]
          IN  /\ inits' = Append(inits, [service |-> l.service, ok |-> factory_ok])
              /\ NewServiceStep(into_inner(l, factory_ok))
    /\ UNCHANGED <<chain, host, rq, rw, px>>

\* Chain::new_service, one turn of `for link in this.links`: the links
\* consumed so far are those whose factory was initialised
NewServiceLink ==
    /\ phase = "compile"
    /\ Len(inits) < Len(chain.links)
    /\ \E factory_ok \in BOOLEAN :
          LET l == chain.links[Len(inits) + 1]
          IN  /\ inits' = Append(inits, [service |-> l.service, ok |-> factory_ok])
              /\ NewServiceStep(into_inner(l, factory_ok))
    /\ UNCHANGED <<chain, host, rq, rw, px>>

\* Chain::new_service, after the loop: Ok(ChainService)
NewServiceDone ==
    /\ phase = "compile"
    /\ Len(inits) = Len(chain.links)
    /\ svc' = [some |-> TRUE, links |-> inner]
    /\ phase' = "serve"
    /\ UNCHANGED <<chain, inner, inits, host, rq, rw, px>>

----------------------------------------------------------------------------
(* Dispatcher: ChainService::call                                          *)

NLinks == Len(svc.links)

\* the host's router on the guards registered with the service: all of
\* them must hold for the route to match
HostAdmits(ctx) ==
    host.guards.some => \A i \in 1..Len(host.guards.gs) : GuardCheck(host.guards.gs[i], ctx)

\* the route matches: the host hands the request to the service
Arrive(r) ==
    /\ svc.some
    /\ rq[r].st = "idle"
    /\ \E u \in RequestUris, h \in Hosts :
          /\ HostAdmits([host |-> h])
          /\ rq' = [rq EXCEPT ![r] = [@ EXCEPT !.st = "trying", !.uri = u, !.host = h,
                                               !.idx = 1]]
    /\ UNCHANGED <<chain, phase, inner, svc, inits, host, rw, px>>

\* the route does not match: the host tries its other routes
RouteElsewhere(r) ==
    /\ svc.some
    /\ rq[r].st = "idle"
    /\ \E u \in RequestUris, h \in Hosts :
          /\ ~HostAdmits([host |-> h])
          /\ rq' = [rq EXCEPT ![r] = [@ EXCEPT !.st = "elsewhere", !.uri = u, !.host = h]]
    /\ UNCHANGED <<chain, phase, inner, svc, inits, host, rw, px>>

\* a skip that leaves the dispatch at the stage it has just consulted
DispatchSkip_stay(r) ==
    LET q  == rq[r]
    IN  /\ q.st = "trying"
        /\ q.idx <= NLinks
        /\ ~matches(svc.links[q.idx], uri_path(q.uri), q)
        /\ rq' = [rq EXCEPT ![r] = [@ EXCEPT !.tried = Append(@, q.idx)]]
        /\ UNCHANGED <<chain, phase, inner, svc, inits, host, rw, px>>

\* a skip on a stage cursor that the requests being dispatched share
DispatchSkip_shared(r) ==
    LET q  == rq[r]
    IN  /\ q.st = "trying"
        /\ q.idx <= NLinks
        /\ ~matches(svc.links[q.idx], uri_path(q.uri), q)
        /\ rq' = [x \in DOMAIN rq |->
                     IF x = r
                     THEN [q EXCEPT !.idx = q.idx + 1, !.tried = Append(@, q.idx)]
                     ELSE IF rq[x].st = "trying"
                     THEN [rq[x] EXCEPT !.idx = q.idx + 1]
                     ELSE rq[x]]
        /\ UNCHANGED <<chain, phase, inner, svc, inits, host, rw, px>>

\* the stage is not selected: on to the next one
DispatchSkip(r) ==
    LET q  == rq[r]
    IN  /\ q.st = "trying"
        /\ q.idx <= NLinks
        /\ ~matches(svc.links[q.idx], uri_path(q.uri), q)
        /\ rq' = [rq EXCEPT ![r] = [@ EXCEPT !.idx = q.idx + 1,
                                            !.tried = Append(@, q.idx)]]
        /\ UNCHANGED <<chain, phase, inner, svc, inits, host, rw, px>>

\* the stage is selected: call_once forwards the request to its handler
DispatchInvoke(r) ==
    LET q  == rq[r]
    IN  /\ q.st = "trying"
        /\ q.idx <= NLinks
        /\ matches(svc.links[q.idx], uri_path(q.uri), q)
        /\ LET li == svc.links[q.idx]
               c  == call_once(li, q)
           IN  /\ c.called
               /\ rq' = [rq EXCEPT ![r] =
                            [@ EXCEPT !.st = "awaiting",
                                      !.inflight = @ \cup {q.idx},
                                      !.tried = Append(@, q.idx),
                                      !.log = Append(@, [stage |-> q.idx,
                                                         service |-> li.service,
                                                         uri |-> c.uri,
                                                         host |-> c.host,
                                                         res |-> NoRes,
                                                         err |-> NoErr,
                                                         go_next |-> FALSE,
                                                         out |-> "pending"])]]
        /\ UNCHANGED <<chain, phase, inner, svc, inits, host, rw, px>>

\* a continue decision that does not ask whether a next stage exists
proceeds_always(li, res, idx, n) == go_next(li, res)

\* the continue decision on the handler's response
proceeds(li, res, idx, n) == go_next(li, res) /\ idx < n

\* the dispatcher on the Result of call_once: the continue decision on a
\* response, an error to the caller.  h is what the handler itself gave.
Complete(r, h, out) ==
    LET q  == rq[r]
        li == svc.links[q.idx]
        k  == Len(q.log)
    IN  IF ~out.ok
        THEN rq' = [rq EXCEPT ![r] =
                       [@ EXCEPT !.st = "error",
                                 !.inflight = @ \ {q.idx},
                                 !.log[k].err = h.err,
                                 !.log[k].out = "error",
                                 !.err = out.err,
                                 !.by = q.idx]]
        ELSE IF proceeds(li, out.res, q.idx, NLinks)
        THEN rq' = [rq EXCEPT ![r] =
                       [@ EXCEPT !.st = "trying",
                                 !.idx = q.idx + 1,
                                 !.inflight = @ \ {q.idx},
                                 !.log[k].res = out.res,
                                 !.log[k].err = h.err,
                                 !.log[k].go_next = go_next(li, out.res),
                                 !.log[k].out = "next"]]
        ELSE rq' = [rq EXCEPT ![r] =
                       [@ EXCEPT !.st = "returned",
                                 !.inflight = @ \ {q.idx},
                                 !.log[k].res = out.res,
                                 !.log[k].err = h.err,
                                 !.log[k].go_next = go_next(li, out.res),
                                 !.log[k].out = "return",
                                 !.result = out.res,
                                 !.by = q.idx]]

\* the handler answers
HandlerRespond(r) ==
    /\ rq[r].st = "awaiting"
    /\ \E res \in HandlerResponses : Complete(r, Ok(res), call_once_await(Ok(res)))
    /\ UNCHANGED <<chain, phase, inner, svc, inits, host, rw, px>>

\* the handler fails: the error goes to the caller
HandlerFail(r) ==
    /\ rq[r].st = "awaiting"
    /\ \E e \in HandlerErrors : Complete(r, Err(e), call_once_await(Err(e)))
    /\ UNCHANGED <<chain, phase, inner, svc, inits, host, rw, px>>

\* a cancellation after which the dispatch goes on with the next stage
Cancel_continue(r) ==
    LET q == rq[r]
    IN  /\ q.st = "awaiting"
        /\ rq' = [rq EXCEPT ![r] = [@ EXCEPT !.st = "trying",
                                            !.idx = q.idx + 1,
                                            !.inflight = {},
                                            !.log[Len(q.log)].out = "aborted"]]
        /\ UNCHANGED <<chain, phase, inner, svc, inits, host, rw, px>>

\* the host cancels the request while a handler invocation is in flight:
\* the dispatch is dropped where it is suspended, and the invocation with it
Cancel(r) ==
    LET q == rq[r]
    IN  /\ q.st = "awaiting"
        /\ rq' = [rq EXCEPT ![r] = [@ EXCEPT !.st = "cancelled",
                                            !.inflight = {},
                                            !.log[Len(q.log)].out = "aborted"]]
        /\ UNCHANGED <<chain, phase, inner, svc, inits, host, rw, px>>

\* an end of the loop that waits for one index more than there are stages
DispatchExhausted_late(r) ==
    LET q == rq[r]
    IN  /\ q.st = "trying"
        /\ q.idx > NLinks + 1
        /\ rq' = [rq EXCEPT ![r] = [@ EXCEPT !.st = "exhausted",
                                            !.result = default_response]]
        /\ UNCHANGED <<chain, phase, inner, svc, inits, host, rw, px>>

\* every stage was tried: the default response
DispatchExhausted(r) ==
    LET q == rq[r]
    IN  /\ q.st = "trying"
        /\ q.idx > NLinks
        /\ rq' = [rq EXCEPT ![r] = [@ EXCEPT !.st = "exhausted",
                                            !.result = default_response]]
        /\ UNCHANGED <<chain, phase, inner, svc, inits, host, rw, px>>

Next ==
    \/ ChainLink
    \/ ChainGuard
    \/ Register
    \/ NewServiceLink
    \/ NewServiceDone
    \/ \E r \in Rids : Arrive(r)
    \/ \E r \in Rids : RouteElsewhere(r)
    \/ \E r \in Rids : DispatchSkip(r)
    \/ \E r \in Rids : DispatchInvoke(r)
    \/ \E r \in Rids : HandlerRespond(r)
    \/ \E r \in Rids : HandlerFail(r)
    \/ \E r \in Rids : DispatchExhausted(r)
    \/ \E r \in Rids : Cancel(r)

Spec == Init /\ [][Next]_vars

\* the dispatcher runs on when it can, and an invoked handler completes
\* unless its request is cancelled first
Fairness ==
    \A r \in Rids :
        /\ WF_vars(DispatchSkip(r) \/ DispatchInvoke(r) \/ DispatchExhausted(r))
        /\ WF_vars(HandlerRespond(r) \/ HandlerFail(r))

\* the chains of up to MaxLinks links that Chain::link can build
LiveChains ==
    UNION { { [ChainNew(EmptyStr) EXCEPT
                  !.links = [i \in 1..n |-> BuiltLink(i, f[i][1], f[i][2], f[i][3])]] :
              f \in [1..n -> Prefixes \X GuardLists \X NextLists] } :
            n \in 0..MaxLinks }

\* the state after Chain::link, register and a new_service that succeeded
InitLive ==
    /\ chain \in LiveChains
    /\ phase = "serve"
    /\ inits = [i \in 1..Len(chain.links) |->
                    [service |-> chain.links[i].service, ok |-> TRUE]]
    /\ inner = [i \in 1..Len(chain.links) |-> into_inner(chain.links[i], TRUE).v]
    /\ svc = [some |-> TRUE, links |-> inner]
    /\ host = [registered |-> TRUE, guards |-> NoGuard]
    /\ rq = [r \in Rids |-> IdleReq]
    /\ rw = IdleRw
    /\ px = IdlePx

NextLive ==
    \/ \E r \in Rids : Arrive(r)
    \/ \E r \in Rids : DispatchSkip(r)
    \/ \E r \in Rids : DispatchInvoke(r)
    \/ \E r \in Rids : HandlerRespond(r)
    \/ \E r \in Rids : HandlerFail(r)
    \/ \E r \in Rids : DispatchExhausted(r)
    \/ \E r \in Rids : Cancel(r)

SpecLive == InitLive /\ [][NextLive]_vars /\ Fairness

----------------------------------------------------------------------------
(* Two requests on one compiled chain                                      *)

ConcRids == {1, 2}

\* the links of the chains served: each has a guard, a prefix and a
\* continuation set
ConcGuards == <<"a">>
ConcNextLists == { << >>, <<HasHeader("x-next"), IsStatus(500)>> }

ConcChains ==
    { [ChainNew(EmptyStr) EXCEPT
          !.links = [i \in 1..MaxLinks |-> BuiltLink(i, f[i][1], ConcGuards, f[i][2])]] :
      f \in [1..MaxLinks -> Prefixes \X ConcNextLists] }

\* the state after Chain::link, register and a new_service that succeeded
InitConc ==
    /\ chain \in ConcChains
    /\ phase = "serve"
    /\ inits = [i \in 1..Len(chain.links) |->
                    [service |-> chain.links[i].service, ok |-> TRUE]]
    /\ inner = [i \in 1..Len(chain.links) |-> into_inner(chain.links[i], TRUE).v]
    /\ svc = [some |-> TRUE, links |-> inner]
    /\ host = [registered |-> TRUE, guards |-> NoGuard]
    /\ rq = [r \in ConcRids |-> IdleReq]
    /\ rw = IdleRw
    /\ px = IdlePx

NextConc ==
    \/ \E r \in ConcRids : Arrive(r)
    \/ \E r \in ConcRids : DispatchSkip(r)
    \/ \E r \in ConcRids : DispatchInvoke(r)
    \/ \E r \in ConcRids : HandlerRespond(r)
    \/ \E r \in ConcRids : HandlerFail(r)
    \/ \E r \in ConcRids : DispatchExhausted(r)

SpecConc == InitConc /\ [][NextConc]_vars

----------------------------------------------------------------------------
(* RewriteService::call                                                    *)

\* the service is called: the rewrite engine runs, and the request is
\* answered at once or handed to the inner service
RewriteCall ==
    /\ rw.st = "idle"
    /\ \E u \in RwRequestUris, m \in ModRewriteResults :
          LET c == service_call(u, m)
          IN  rw' = [rw EXCEPT !.st = IF c.inner THEN "calling" ELSE "done",
                               !.uri = u,
                               !.m = m,
                               !.calls = IF c.inner THEN @ + 1 ELSE @,
                               !.inner_uri = c.uri,
                               !.out = c.out]
    /\ UNCHANGED <<chain, phase, inner, svc, inits, host, rq, px>>

\* the inner service answers: its Result is the Result of the call
RewriteInnerRespond ==
    /\ rw.st = "calling"
    /\ \E res \in HandlerResponses : rw' = [rw EXCEPT !.st = "done", !.out = Ok(res)]
    /\ UNCHANGED <<chain, phase, inner, svc, inits, host, rq, px>>

RewriteInnerFail ==
    /\ rw.st = "calling"
    /\ \E e \in HandlerErrors : rw' = [rw EXCEPT !.st = "done", !.out = Err(e)]
    /\ UNCHANGED <<chain, phase, inner, svc, inits, host, rq, px>>

NextRewrite ==
    \/ RewriteCall
    \/ RewriteInnerRespond
    \/ RewriteInnerFail

SpecRewrite == Init /\ [][NextRewrite]_vars

----------------------------------------------------------------------------
(* ProxyService::call                                                      *)

\* the service is called for a request its locations and guards admit:
\* the target URI is combined, and the request is sent or answered
ProxyCall ==
    /\ px.st = "idle"
    /\ \E method \in PxMethods, u \in PxRequestUris, c \in CombineResults :
          LET req == [method |-> method, uri |-> u]
              o   == on_combine(req, c)
          IN  px' = [px EXCEPT !.st = IF o.send THEN "sending" ELSE "done",
                               !.req = req,
                               !.combined = c.ok,
                               !.target = o.target,
                               !.sends = IF o.send THEN @ + 1 ELSE @,
                               !.out = o.out]
    /\ UNCHANGED <<chain, phase, inner, svc, inits, host, rq, rw>>

\* send_stream completes, with the upstream's response or a failure
ProxySent ==
    /\ px.st = "sending"
    /\ \E s \in SendResults :
          px' = [px EXCEPT !.st = "done", !.sent = s, !.out = on_send(px.req, s)]
    /\ UNCHANGED <<chain, phase, inner, svc, inits, host, rq, rw>>

NextProxy ==
    \/ ProxyCall
    \/ ProxySent

SpecProxy == Init /\ [][NextProxy]_vars

----------------------------------------------------------------------------
(* Vocabulary of the properties                                            *)

\* the log entries of request r, and the entries whose handler has answered
Entries(r) == 1..Len(rq[r].log)
Answered(e) == e.out \in {"next", "return"}

\* the response is matched by the continuation set of compiled stage k
ContinuationMatches(k, res) ==
    \E j \in 1..Len(svc.links[k].next) : NextNext(svc.links[k].next[j], res)

\* the handler of stage k was invoked for request r
Invoked(r, k) == \E i \in Entries(r) : rq[r].log[i].stage = k

\* the selection the contract describes: the prefix matches and every
\* declared selection predicate holds
SelectedByContract(r, k) ==
    /\ starts_with(uri_path(rq[r].uri), chain.links[k].prefix)
    /\ \A j \in 1..Len(chain.links[k].guards) : GuardCheck(chain.links[k].guards[j], rq[r])

Terminal(r) == rq[r].st \in {"returned", "error", "exhausted"}

----------------------------------------------------------------------------
(* C1  Short-circuit.  Whenever the handler of a selected stage k has      *)
(* answered with a response that no continuation predicate of stage k      *)
(* matches, the dispatch has returned exactly that response, and no stage  *)
(* after k was tried or invoked for the request.  (The first selected      *)
(* stage is the first entry of the log; the property is checked for every  *)
(* invoked stage.)                                                         *)
ShortCircuit ==
    \A r \in Rids : \A i \in Entries(r) :
        LET q == rq[r]
            e == q.log[i]
        IN  (Answered(e) /\ ~ContinuationMatches(e.stage, e.res)) =>
                /\ q.st = "returned"
                /\ q.result = e.res
                /\ q.by = e.stage
                /\ i = Len(q.log)
                /\ \A t \in 1..Len(q.tried) : q.tried[t] <= e.stage

\* the first selected stage answered 200 under a continuation set that does
\* not match it, with a later stage left untried
ShortCircuitWitness ==
    \E r \in Rids :
        /\ Len(rq[r].log) = 1
        /\ rq[r].log[1].out = "return"
        /\ rq[r].log[1].res.status = 200
        /\ ~ContinuationMatches(rq[r].log[1].stage, rq[r].log[1].res)
        /\ rq[r].log[1].stage < NLinks

----------------------------------------------------------------------------
(* C2  Selection AND.  A compiled stage that the dispatcher consulted for  *)
(* a request had its handler invoked if and only if the request path       *)
(* starts with the stage's prefix and every declared selection predicate   *)
(* holds; with no predicates the prefix alone decides.                     *)
SelectionAnd ==
    \A r \in Rids : \A t \in 1..Len(rq[r].tried) :
        LET k == rq[r].tried[t]
        IN  Invoked(r, k) <=> SelectedByContract(r, k)

----------------------------------------------------------------------------
(* C3  Default continuation.  For a stage declared with no continuation    *)
(* predicate and followed by another stage: when its handler answers 404   *)
(* the dispatch moves on to the next stage, and when it answers any other  *)
(* status that response is the final result of the chain.                  *)
DefaultContinuation ==
    \A r \in Rids : \A i \in Entries(r) :
        LET q == rq[r]
            e == q.log[i]
        IN  (Answered(e) /\ chain.links[e.stage].next = << >> /\ e.stage < NLinks) =>
                IF e.res.status = NOT_FOUND
                THEN /\ e.out = "next"
                     /\ q.idx > e.stage
                     /\ ~(q.st = "returned" /\ q.by = e.stage)
                ELSE /\ e.out = "return"
                     /\ q.st = "returned"
                     /\ q.result = e.res
                     /\ q.by = e.stage

\* a stage without declared continuation predicates answered 404 and the
\* dispatch went on to the stage after it
DefaultContinuationWitness ==
    \E r \in Rids : \E i \in Entries(r) :
        LET e == rq[r].log[i]
        IN  /\ chain.links[e.stage].next = << >>
            /\ e.stage < NLinks
            /\ e.out = "next"
            /\ e.res.status = NOT_FOUND
            /\ rq[r].idx = e.stage + 1

----------------------------------------------------------------------------
(* C4  A stage that is not selected (its prefix does not match, or one of  *)
(* its selection predicates fails) never ends the dispatch: its handler is *)
(* not the one whose response or error is returned, whatever continuation  *)
(* predicates it declares.                                                 *)
UnselectedNeverTerminates ==
    \A r \in Rids : \A t \in 1..Len(rq[r].tried) :
        LET k == rq[r].tried[t]
        IN  ~SelectedByContract(r, k) =>
                ~(rq[r].st \in {"returned", "error"} /\ rq[r].by = k)

----------------------------------------------------------------------------
(* C5  Exhaustion default.                                                 *)

\* stage k was consulted and not invoked
Unselected(r, k) ==
    /\ \E t \in 1..Len(rq[r].tried) : rq[r].tried[t] = k
    /\ ~Invoked(r, k)

\* the handler of stage k answered with a response its continuation set matches
AnsweredMatched(r, k) ==
    \E i \in Entries(r) :
        /\ rq[r].log[i].stage = k
        /\ Answered(rq[r].log[i])
        /\ ContinuationMatches(k, rq[r].log[i].res)

----------------------------------------------------------------------------
(* C6  Compile atomicity.  Once the handler factory of any stage has       *)
(* failed during Chain::new_service, compilation has failed as a whole:    *)
(* no ChainService exists, and no request has been dispatched to any       *)
(* handler, those of the stages initialised before the failure included.   *)
CompileAtomicity ==
    (\E i \in 1..Len(inits) : ~inits[i].ok) =>
        /\ phase = "failed"
        /\ ~svc.some
        /\ \A r \in Rids : rq[r].st = "idle" /\ rq[r].log = << >>

\* the second stage's factory failed after the first one had succeeded
CompileAtomicityWitness ==
    /\ phase = "failed"
    /\ Len(inits) = 2
    /\ inits[1].ok
    /\ ~inits[2].ok

----------------------------------------------------------------------------
(* C7  Prefix stripping.                                                   *)

\* what is left of the request path of r after the prefix of stage k
Suffix(r, k) ==
    SubSeq(uri_path(rq[r].uri), Len(svc.links[k].prefix) + 1, Len(uri_path(rq[r].uri)))

\* As claimed: the handler of a selected stage with a non-empty prefix P
\* sees, for the request path P + suffix, the path suffix; with an empty
\* prefix it sees the request path.
PrefixStrippingAsClaimed ==
    \A r \in Rids : \A i \in Entries(r) :
        LET e == rq[r].log[i]
            P == svc.links[e.stage].prefix
        IN  IF P = EmptyStr
            THEN uri_path(e.uri) = uri_path(rq[r].uri)
            ELSE uri_path(rq[r].uri) = P \o Suffix(r, e.stage) =>
                     uri_path(e.uri) = Suffix(r, e.stage)

\* As amended: the same, except that for an empty suffix the handler sees
\* the path "/" when the request URI has a query or a scheme, and the empty
\* path otherwise.
PrefixStripping ==
    \A r \in Rids : \A i \in Entries(r) :
        LET e == rq[r].log[i]
            P == svc.links[e.stage].prefix
            u == rq[r].uri
        IN  IF P = EmptyStr
            THEN uri_path(e.uri) = uri_path(u)
            ELSE uri_path(u) = P \o Suffix(r, e.stage) =>
                     IF Suffix(r, e.stage) # EmptyStr
                     THEN uri_path(e.uri) = Suffix(r, e.stage)
                     ELSE uri_path(e.uri) =
                              IF pq_query(u.pq).some \/ u.abs THEN <<"/">> ELSE EmptyStr

\* the handler of a stage with prefix "/a" was handed "/a/x" as "/x"
PrefixStrippingWitness ==
    \E r \in Rids : \E i \in Entries(r) :
        /\ svc.links[rq[r].log[i].stage].prefix = <<"/", "a">>
        /\ uri_path(rq[r].uri) = <<"/", "a", "/", "x">>
        /\ uri_path(rq[r].log[i].uri) = <<"/", "x">>

----------------------------------------------------------------------------
(* C8  Continue decision at the last stage.  A response was dropped in     *)
(* favour of the next stage only if the stage's continuation set matched   *)
(* it and the stage was not the last; whatever the last stage's handler    *)
(* answers is the final result, also when its continuation set matches.    *)
ContinueAtLast ==
    \A r \in Rids : \A i \in Entries(r) :
        LET q == rq[r]
            e == q.log[i]
        IN  /\ e.out = "next" =>
                   ContinuationMatches(e.stage, e.res) /\ e.stage < NLinks
            /\ (Answered(e) /\ e.stage = NLinks) =>
                   /\ e.out = "return"
                   /\ q.st = "returned"
                   /\ q.result = e.res
                   /\ q.by = e.stage

\* the last stage answered with a response its continuation set matches,
\* and that response was returned
ContinueAtLastWitness ==
    \E r \in Rids : \E i \in Entries(r) :
        LET e == rq[r].log[i]
        IN  /\ e.stage = NLinks
            /\ e.out = "return"
            /\ ContinuationMatches(e.stage, e.res)
            /\ rq[r].result = e.res

----------------------------------------------------------------------------
(* C9  Continuation OR.  For a stage declared with continuation predicates *)
(* n1..nk, k >= 1: go_next holds of the handler's response exactly if some *)
(* ni matches it; where a next stage exists the response is dropped for    *)
(* the next stage exactly in that case; and a response that is returned is *)
(* the one the handler gave.                                               *)
ContinuationOr ==
    \A r \in Rids : \A i \in Entries(r) :
        LET q  == rq[r]
            e  == q.log[i]
            ns == chain.links[e.stage].next
            some_matches == \E j \in 1..Len(ns) : NextNext(ns[j], e.res)
        IN  (Answered(e) /\ ns # << >>) =>
                /\ e.go_next <=> some_matches
                /\ e.stage < NLinks => (e.out = "next" <=> some_matches)
                /\ e.out = "return" => q.result = e.res

\* a stage with two continuation predicates fell through on a response
\* that only one of them matches
ContinuationOrWitness ==
    \E r \in Rids : \E i \in Entries(r) :
        LET e  == rq[r].log[i]
            ns == chain.links[e.stage].next
        IN  /\ Len(ns) = 2
            /\ e.out = "next"
            /\ NextNext(ns[2], e.res)
            /\ ~NextNext(ns[1], e.res)

----------------------------------------------------------------------------
(* C10  Ordering.  The builder keeps the links in the order they were      *)
(* added (the n-th link added wraps handler factory n), the compiled       *)
(* sequence has the same order, the stages of one request are tried in     *)
(* that order, and at most one handler invocation of a request is in       *)
(* flight.                                                                 *)
Ordering ==
    /\ \A i \in 1..Len(chain.links) : chain.links[i].service = i
    /\ svc.some =>
          /\ Len(svc.links) = Len(chain.links)
          /\ \A i \in 1..Len(svc.links) :
                /\ svc.links[i].service = chain.links[i].service
                /\ svc.links[i].prefix = chain.links[i].prefix
    /\ \A r \in Rids :
          /\ \A t \in 1..Len(rq[r].tried) : rq[r].tried[t] = t
          /\ \A i, j \in Entries(r) :
                i < j => rq[r].log[i].service < rq[r].log[j].service
          /\ Cardinality(rq[r].inflight) <= 1
          /\ \A i \in Entries(r) :
                rq[r].log[i].out = "pending" => i = Len(rq[r].log)

\* the second handler is in flight after the first one fell through
OrderingWitness ==
    \E r \in Rids :
        /\ Len(rq[r].log) = 2
        /\ rq[r].log[1].service = 1
        /\ rq[r].log[2].service = 2
        /\ rq[r].inflight = {2}

----------------------------------------------------------------------------
----------------------------------------------------------------------------
(* C12  The handler of an unselected stage is never invoked: a stage the   *)
(* dispatcher consulted whose prefix does not match the request path, or   *)
(* one of whose selection predicates fails, has no invocation in the log.  *)
UnselectedNotInvoked ==
    \A r \in Rids : \A t \in 1..Len(rq[r].tried) :
        LET k == rq[r].tried[t]
        IN  ~SelectedByContract(r, k) => ~Invoked(r, k)

----------------------------------------------------------------------------
(* C13  Chain-level guards.  The guards given to Chain::guard are handed   *)
(* to the host's router by register.  A request for which one of them      *)
(* fails is routed elsewhere: no stage of the chain is tried for it, no    *)
(* handler is invoked, and the chain produces no result for it.            *)
ChainGuardGate ==
    /\ host.registered =>
          /\ host.guards.some <=> chain.guards # << >>
          /\ host.guards.some => host.guards.gs = chain.guards
    /\ \A r \in Rids :
          (/\ rq[r].st # "idle"
           /\ \E j \in 1..Len(chain.guards) : ~GuardCheck(chain.guards[j], rq[r])) =>
              /\ rq[r].st = "elsewhere"
              /\ rq[r].tried = << >>
              /\ rq[r].log = << >>
              /\ rq[r].result = NoRes

\* a chain with a stage and a chain-level guard that fails for the
\* request: the request went elsewhere
ChainGuardGateWitness ==
    \E r \in Rids :
        /\ NLinks >= 1
        /\ chain.guards = <<"a">>
        /\ rq[r].st = "elsewhere"
        /\ rq[r].host = "b"

----------------------------------------------------------------------------
(* C14  Every compiled stage has at least one continuation predicate: the  *)
(* declared predicates in declared order if the link declared any, and     *)
(* otherwise the single predicate "status is 404 Not Found".               *)
CompiledNext(l) == IF l.next = << >> THEN <<IsStatus(NOT_FOUND)>> ELSE l.next

CompiledContinuations ==
    /\ Len(inner) <= Len(chain.links)
    /\ \A i \in 1..Len(inner) :
          /\ Len(inner[i].next) >= 1
          /\ inner[i].next = CompiledNext(chain.links[i])
    /\ svc.some =>
          /\ Len(svc.links) = Len(chain.links)
          /\ \A i \in 1..Len(svc.links) :
                /\ Len(svc.links[i].next) >= 1
                /\ svc.links[i].next = CompiledNext(chain.links[i])

\* a compiled chain with a stage that declared two predicates and a stage
\* that declared none
CompiledContinuationsWitness ==
    /\ svc.some
    /\ \E i, j \in 1..Len(svc.links) :
          /\ chain.links[i].next = <<HasHeader("x-next"), IsStatus(500)>>
          /\ svc.links[i].next = <<HasHeader("x-next"), IsStatus(500)>>
          /\ chain.links[j].next = << >>
          /\ svc.links[j].next = <<IsStatus(NOT_FOUND)>>

----------------------------------------------------------------------------
(* C15  The prefix test is a literal string-prefix test and is not         *)
(* path-segment-aware.  A consulted stage whose prefix is not, character   *)
(* by character, the beginning of the request path is not invoked; a       *)
(* consulted stage is invoked whenever its prefix is the beginning of the  *)
(* request path and the guard part of LinkInner::matches holds, whatever   *)
(* character follows the prefix in the path ("/ax" as much as "/a/x").     *)
LiteralPrefix(path, p) ==
    /\ Len(p) <= Len(path)
    /\ \A i \in 1..Len(p) : path[i] = p[i]

\* the guard part of LinkInner::matches, as the source computes it
GuardPart(li, ctx) == li.guard.some /\ ~AllGuardCheck(li.guard.gs, ctx)

PrefixLiteral ==
    \A r \in Rids : \A t \in 1..Len(rq[r].tried) :
        LET k    == rq[r].tried[t]
            li   == svc.links[k]
            path == uri_path(rq[r].uri)
        IN  /\ ~LiteralPrefix(path, li.prefix) => ~Invoked(r, k)
            /\ (LiteralPrefix(path, li.prefix) /\ GuardPart(li, rq[r])) => Invoked(r, k)

\* the request path "/ax" passed the prefix test of a stage with prefix
\* "/a": its handler was invoked on the rest of the path
PrefixLiteralWitness ==
    \E r \in Rids : \E i \in Entries(r) :
        /\ uri_path(rq[r].uri) = <<"/", "a", "x">>
        /\ svc.links[rq[r].log[i].stage].prefix = <<"/", "a">>
        /\ uri_path(rq[r].log[i].uri) = <<"x">>

----------------------------------------------------------------------------
(* C16  No backtracking.  In every step, for every request: the index of   *)
(* the stage being tried does not decrease; the stages consulted so far    *)
(* are only added to; the stages consulted and the stages invoked so far   *)
(* are in strictly increasing order, so each                               *)
(* stage is consulted at most once and invoked at most once; and a         *)
(* dispatch that has reached a terminal state (returned, error, exhausted) *)
(* does not change any more: no stage is consulted or invoked after it.    *)
StrictlyIncreasing(s) == \A i, j \in 1..Len(s) : i < j => s[i] < s[j]

LogStages(q) == [i \in 1..Len(q.log) |-> q.log[i].stage]

NoBacktrackingStep ==
    \A r \in Rids :
        /\ rq'[r].idx >= rq[r].idx
        /\ StrictlyIncreasing(rq'[r].tried)
        /\ StrictlyIncreasing(LogStages(rq'[r]))
        /\ \A i \in 1..Len(rq[r].tried) :
              Len(rq'[r].tried) >= i /\ rq'[r].tried[i] = rq[r].tried[i]
        /\ Terminal(r) => rq'[r] = rq[r]

NoBacktracking == [][NoBacktrackingStep]_vars

\* a dispatch over two stages that consulted and invoked both, in order,
\* and returned the second one's response
NoBacktrackingWitness ==
    \E r \in Rids :
        /\ rq[r].st = "returned"
        /\ rq[r].tried = <<1, 2>>
        /\ LogStages(rq[r]) = <<1, 2>>
        /\ rq[r].by = 2

----------------------------------------------------------------------------
(* C17  Termination.  When the dispatcher is scheduled and every invoked   *)
(* handler completes, a request that is being dispatched (a stage is being *)
(* tried or a handler is in flight) eventually reaches a terminal state    *)
(* (returned, error or exhausted), unless the host cancels it; and at no   *)
(* time has the dispatch of a request made more handler invocations than   *)
(* the chain has stages.                                                   *)
Dispatching(r) == rq[r].st \in {"trying", "awaiting"}

Termination ==
    /\ \A r \in Rids : [](svc.some => Len(rq[r].log) <= NLinks)
    /\ \A r \in Rids : Dispatching(r) ~> (Terminal(r) \/ rq[r].st = "cancelled")

\* a dispatch over two stages that ended after two handler invocations,
\* the second of which failed
TerminationWitness ==
    \E r \in Rids :
        /\ NLinks = 2
        /\ Len(rq[r].log) = 2
        /\ rq[r].st = "error"

----------------------------------------------------------------------------
(* C18  Compile initialises the stage handlers one after the other in      *)
(* declaration order: the i-th initialisation made is that of the i-th     *)
(* declared stage, so no stage is initialised twice; a compile that        *)
(* succeeded initialised every stage, each with success; a failed          *)
(* initialisation is the last one made (no later stage is initialised, and *)
(* the failed one is not tried again) and the compile has failed.          *)
CompileSequential ==
    /\ Len(inits) <= Len(chain.links)
    /\ \A i \in 1..Len(inits) :
          /\ inits[i].service = chain.links[i].service
          /\ \A j \in 1..Len(inits) : inits[j].service = inits[i].service => j = i
          /\ ~inits[i].ok => (i = Len(inits) /\ phase = "failed")
    /\ phase = "failed" => (Len(inits) >= 1 /\ ~inits[Len(inits)].ok)
    /\ phase = "serve" =>
          /\ Len(inits) = Len(chain.links)
          /\ \A i \in 1..Len(inits) : inits[i].ok

\* a chain of two stages whose first initialisation failed: the second
\* stage was not initialised
CompileSequentialWitness ==
    /\ Len(chain.links) = 2
    /\ phase = "failed"
    /\ Len(inits) = 1
    /\ inits[1].service = chain.links[1].service
    /\ ~inits[1].ok

----------------------------------------------------------------------------
(* C19  Request isolation.  With two requests dispatched concurrently on   *)
(* one compiled chain, in any interleaving of their steps: no step changes *)
(* the compiled stage sequence; and the final result of each request       *)
(* (returned response, error, or exhaustion default) is the one a          *)
(* dispatch of that request alone computes from the same handler outcomes. *)

\* what the handler of stage k gave to request q, from q's own log
HasOutcome(q, k) == \E i \in 1..Len(q.log) : q.log[i].stage = k
Outcome(q, k) == q.log[CHOOSE i \in 1..Len(q.log) : q.log[i].stage = k]

\* the dispatch of q alone, from stage idx on
RECURSIVE Alone(_, _)
Alone(q, idx) ==
    IF idx > NLinks
    THEN [st |-> "exhausted", result |-> default_response, err |-> NoErr, by |-> 0]
    ELSE IF ~matches(svc.links[idx], uri_path(q.uri), q)
    THEN Alone(q, idx + 1)
    ELSE IF ~HasOutcome(q, idx)
    THEN [st |-> "awaiting", result |-> NoRes, err |-> NoErr, by |-> 0]
    ELSE IF Outcome(q, idx).err # NoErr
    THEN [st |-> "error", result |-> NoRes, err |-> Outcome(q, idx).err, by |-> idx]
    ELSE IF proceeds(svc.links[idx], Outcome(q, idx).res, idx, NLinks)
    THEN Alone(q, idx + 1)
    ELSE [st |-> "returned", result |-> Outcome(q, idx).res, err |-> NoErr, by |-> idx]

SameAsAlone(r) ==
    LET a == Alone(rq[r], 1)
    IN  /\ rq[r].st = a.st
        /\ rq[r].result = a.result
        /\ rq[r].err = a.err
        /\ rq[r].by = a.by

Isolation ==
    /\ [][svc' = svc /\ inner' = inner]_vars
    /\ [](\A r \in ConcRids : Terminal(r) => SameAsAlone(r))

\* the first request has got the response of the second stage while a
\* handler invocation of the second request is in flight
IsolationWitness ==
    /\ rq[1].st = "returned"
    /\ rq[1].by = 2
    /\ Len(rq[1].log) = 2
    /\ rq[2].st = "awaiting"
    /\ rq[2].inflight = {1}

----------------------------------------------------------------------------
(* C20  Cancellation.  A handler invocation that the host's cancellation   *)
(* found in flight is aborted: it is the last invocation of the request,   *)
(* nothing is in flight for the request any more, and the request has      *)
(* neither a response (of a stage or the default 404) nor an error; and a  *)
(* cancelled request does not change any more, so no further stage is      *)
(* consulted and no further handler is invoked for it.                     *)
CancelledRight(r) ==
    \A i \in Entries(r) :
        rq[r].log[i].out = "aborted" =>
            /\ rq[r].st = "cancelled"
            /\ i = Len(rq[r].log)
            /\ rq[r].inflight = {}
            /\ rq[r].result = NoRes
            /\ rq[r].err = NoErr
            /\ rq[r].tried[Len(rq[r].tried)] = rq[r].log[i].stage

Cancellation ==
    /\ [](\A r \in Rids : CancelledRight(r))
    /\ [](\A r \in Rids : rq[r].st = "cancelled" =>
              \E i \in Entries(r) : rq[r].log[i].out = "aborted")
    /\ [][\A r \in Rids : rq[r].st = "cancelled" => rq'[r] = rq[r]]_vars

\* a request cancelled while the handler of the first of two stages was in
\* flight: the second stage was not consulted
CancellationWitness ==
    \E r \in Rids :
        /\ NLinks = 2
        /\ rq[r].st = "cancelled"
        /\ rq[r].tried = <<1>>
        /\ rq[r].log[1].out = "aborted"

----------------------------------------------------------------------------
(* C21  Fallthrough end to end.  For the chain [stage 1 with prefix "/a"   *)
(* and the default continuation, stage 2 with the empty prefix], neither   *)
(* with a selection predicate, a finished dispatch of the request "/a/x"   *)
(* has invoked the handler of stage 1; if that handler answered 404 it has *)
(* then invoked the handler of stage 2; and if that one answered 200 the   *)
(* result is that response.  In general, the stage consulted after a       *)
(* fallthrough is invoked exactly when it is selected for the request's    *)
(* original path, not for the path stripped for the stage before it.       *)
TwoStageChain ==
    /\ Len(chain.links) = 2
    /\ chain.links[1].prefix = <<"/", "a">>
    /\ chain.links[1].guards = << >>
    /\ chain.links[1].next = << >>
    /\ chain.links[2].prefix = EmptyStr
    /\ chain.links[2].guards = << >>

LogOf(r, k) == rq[r].log[CHOOSE i \in Entries(r) : rq[r].log[i].stage = k]

FallthroughEndToEnd ==
    \A r \in Rids :
        /\ (/\ TwoStageChain
            /\ Terminal(r)
            /\ uri_path(rq[r].uri) = <<"/", "a", "/", "x">>) =>
               /\ Invoked(r, 1)
               /\ LogOf(r, 1).res.status = NOT_FOUND =>
                     /\ Invoked(r, 2)
                     /\ LogOf(r, 2).res.status = 200 =>
                           /\ rq[r].st = "returned"
                           /\ rq[r].by = 2
                           /\ rq[r].result = LogOf(r, 2).res
        /\ \A i \in Entries(r) :
              LET k == rq[r].log[i].stage
              IN  (rq[r].log[i].out = "next" /\ Terminal(r)) =>
                      /\ \E t \in 1..Len(rq[r].tried) : rq[r].tried[t] = k + 1
                      /\ Invoked(r, k + 1) <=> SelectedByContract(r, k + 1)

----------------------------------------------------------------------------
(* C22  Prefix stripping changes only the path.  The request a selected    *)
(* stage hands to its handler has the query, the scheme and authority, and *)
(* the headers of the original request; when the stage's prefix is empty   *)
(* its URI is the original URI.                                            *)
StrippingFrame ==
    \A r \in Rids : \A i \in Entries(r) :
        LET e == rq[r].log[i]
            P == svc.links[e.stage].prefix
            u == rq[r].uri
        IN  /\ e.host = rq[r].host
            /\ e.uri.abs = u.abs
            /\ pq_query(e.uri.pq) = pq_query(u.pq)
            /\ P = EmptyStr => e.uri = u

\* the handler of a stage with prefix "/a" was handed "/a?q" with the
\* prefix stripped and the query "q" in place
StrippingFrameWitness ==
    \E r \in Rids : \E i \in Entries(r) :
        /\ svc.links[rq[r].log[i].stage].prefix = <<"/", "a">>
        /\ rq[r].uri.pq = <<"/", "a", "?", "q">>
        /\ rq[r].log[i].uri.pq = <<"?", "q">>
        /\ pq_query(rq[r].log[i].uri.pq) = [some |-> TRUE, v |-> <<"q">>]

----------------------------------------------------------------------------
(* C23  RewriteService calls its inner service at most once per request,   *)
(* and only when the engine yields a URI rewrite whose text parses as a    *)
(* URI and joins with the request URI; the inner service then sees the     *)
(* joined URI: the path of the rewritten URI, and the query pairs of the   *)
(* request overridden and extended by those of the rewritten URI.  When    *)
(* the engine yields a redirect or a status, that response is the result   *)
(* and the inner service is not called; when the engine, the recoding, the *)
(* status code, the parse or the join fails, the result is the error and   *)
(* the inner service is not called.                                        *)
RwParses == rw.m.text # EmptyStr /\ \A i \in 1..Len(rw.m.text) : rw.m.text[i] # " "
RwAbsolute == rw.m.text[1] = "http://h"
RwRewrites == rw.m.kind \in {"uri", "enduri"} /\ rw.m.recode_ok
RwJoins == RwParses /\ (RwAbsolute \/ rw.uri.abs)

\* the text of the rewritten URI from its path on
RwAfterText == IF RwAbsolute THEN Tail(rw.m.text) ELSE rw.m.text

RewriteCallsInner ==
    rw.st # "idle" =>
        /\ rw.calls <= 1
        /\ rw.calls = 1 <=> (RwRewrites /\ RwJoins)
        /\ rw.calls = 1 =>
              /\ rw.inner_uri.path = pq_path(RwAfterText)
              /\ \A p \in get_query(MkUri(FALSE, RwAfterText)) : p \in rw.inner_uri.query
              /\ \A p \in rw.inner_uri.query :
                    \/ p \in get_query(MkUri(FALSE, RwAfterText))
                    \/ p \in get_query(rw.uri)
              /\ \A p, q \in rw.inner_uri.query : pair_key(p) = pair_key(q) => p = q
              /\ \A p \in get_query(rw.uri) :
                    (\A q \in get_query(MkUri(FALSE, RwAfterText)) :
                         pair_key(q) # pair_key(p)) => p \in rw.inner_uri.query
        /\ (rw.m.kind \in {"redirect", "status"} /\ status_from_u16(rw.m.sc)) =>
              /\ rw.st = "done"
              /\ rw.out.ok
              /\ rw.out.res.status = rw.m.sc
              /\ (rw.m.kind = "redirect") <=> ("location" \in rw.out.res.headers)
        /\ ~(rw.m.kind \in {"redirect", "status"}) /\ ~(RwRewrites /\ RwJoins) =>
              /\ rw.st = "done"
              /\ ~rw.out.ok
        /\ (rw.m.kind \in {"redirect", "status"} /\ ~status_from_u16(rw.m.sc)) =>
              /\ rw.st = "done"
              /\ ~rw.out.ok

\* the inner service was called once with "/b?k=2" joined to the request
\* "http://h/a?k=1", and has answered
RewriteCallsInnerWitness ==
    /\ rw.st = "done"
    /\ rw.calls = 1
    /\ rw.uri = MkUri(TRUE, <<"/", "a", "?", "k=1">>)
    /\ rw.inner_uri = [abs |-> TRUE, path |-> <<"/", "b">>, query |-> {"k=2"}]
    /\ rw.out.ok
    /\ rw.out.res.status = 200

----------------------------------------------------------------------------
(* C24  ProxyService never hands an upstream failure to its caller as an   *)
(* error.  A finished call has a successful result for the original        *)
(* request: the proxy's default response when combining the target URI     *)
(* failed (nothing was sent) or when sending to the upstream failed, and   *)
(* otherwise a response with the status and the headers of the upstream's  *)
(* response.                                                               *)
ProxyNeverFails ==
    px.st = "done" =>
        /\ px.out.ok
        /\ px.out.err = NoErr
        /\ px.out.res.req = px.req
        /\ px.sends <= 1
        /\ ~px.combined =>
              /\ px.sends = 0
              /\ px.out.res.kind = "default"
        /\ (px.combined /\ ~px.sent.ok) =>
              /\ px.sends = 1
              /\ px.out.res.kind = "default"
        /\ (px.combined /\ px.sent.ok) =>
              /\ px.sends = 1
              /\ px.out.res.kind = "upstream"
              /\ px.out.res.status = px.sent.status
              /\ px.out.res.headers = px.sent.headers

\* a POST was sent to the upstream, the sending failed, and the call
\* ended with the default response
ProxyNeverFailsWitness ==
    /\ px.st = "done"
    /\ px.req.method = "POST"
    /\ px.sends = 1
    /\ ~px.sent.ok
    /\ px.sent.err = "timeout"
    /\ px.out.ok
    /\ px.out.res.kind = "default"

====
